---- MODULE Spec2Model ----
(***************************************************************************)
(* The Zenith Bank dashboard script (src/project.py) as a state machine.   *)
(*                                                                         *)
(* State: the two data frames read from dim_customers.csv and              *)
(* fact_spends.csv, the st.cache_data entry of load_data, the module-level *)
(* data frame df at the end of a script run, and what the sidebar widgets  *)
(* offered and returned in that run.  One action is one run of the script, *)
(* top to bottom.                                                          *)
(*                                                                         *)
(* Text is a sequence of one-character strings.  A cell of a data frame is *)
(* a record [k, n, s]: a number, a text, a parsed date (its day number) or *)
(* NaN/None/NaT.  A data frame is [cols, rows]: the column labels in       *)
(* order, and the rows, each a sequence of cells aligned with cols.        *)
(***************************************************************************)
EXTENDS Integers, Sequences, FiniteSets, TLC

VARIABLES customers, spends, cache, today, df, offered, selected, metrics

vars == <<customers, spends, cache, today, df, offered, selected, metrics>>

----------------------------------------------------------------------------
(* Text *)

UpperChars == <<"A","B","C","D","E","F","G","H","I","J","K","L","M",
                "N","O","P","Q","R","S","T","U","V","W","X","Y","Z">>
LowerChars == <<"a","b","c","d","e","f","g","h","i","j","k","l","m",
                "n","o","p","q","r","s","t","u","v","w","x","y","z">>
DigitChars == <<"0","1","2","3","4","5","6","7","8","9">>

\* The characters of the model in code-point order (Python compares str by
\* code point).
CodePoints == <<" ", "+", "-", "/">> \o DigitChars \o <<"<">> \o UpperChars
              \o <<"_">> \o LowerChars

IndexOf(seq, c) ==
    IF \E i \in 1..Len(seq) : seq[i] = c
    THEN CHOOSE i \in 1..Len(seq) : seq[i] = c
    ELSE 0

Ord(c) == IndexOf(CodePoints, c)

RECURSIVE StrLess(_, _)
StrLess(a, b) ==
    IF a = <<>> THEN b # <<>>
    ELSE IF b = <<>> THEN FALSE
    ELSE IF Head(a) = Head(b) THEN StrLess(Tail(a), Tail(b))
    ELSE Ord(Head(a)) < Ord(Head(b))

\* sub in s
Contains(s, sub) ==
    \E i \in 0..(Len(s) - Len(sub)) :
        \A j \in 1..Len(sub) : s[i + j] = sub[j]

str_lower(s) ==
    [i \in 1..Len(s) |->
        IF IndexOf(UpperChars, s[i]) # 0
        THEN LowerChars[IndexOf(UpperChars, s[i])]
        ELSE s[i]]

RECURSIVE LStrip(_)
LStrip(s) == IF s # <<>> /\ Head(s) = " " THEN LStrip(Tail(s)) ELSE s

RECURSIVE RStrip(_)
RStrip(s) ==
    IF s # <<>> /\ s[Len(s)] = " " THEN RStrip(SubSeq(s, 1, Len(s) - 1)) ELSE s

str_strip(s) == RStrip(LStrip(s))

\* .str.replace(" ", "_")
str_replace(s) == [i \in 1..Len(s) |-> IF s[i] = " " THEN "_" ELSE s[i]]

IsNameChar(c) ==
    IndexOf(LowerChars, c) # 0 \/ IndexOf(DigitChars, c) # 0 \/ c = "_"

\* .str.replace(r"[^a-z0-9_]", "", regex=True)
str_replace_regex(s) == SelectSeq(s, IsNameChar)

CleanLabel(s) == str_replace_regex(str_replace(str_strip(str_lower(s))))

----------------------------------------------------------------------------
(* Cells and data frames *)

NaN == [k |-> "nan", n |-> 0, s |-> <<>>]
Num(n) == [k |-> "num", n |-> n, s |-> <<>>]
Str(s) == [k |-> "str", n |-> 0, s |-> s]
Date(d) == [k |-> "date", n |-> d, s |-> <<>>]

isnull(c) == c.k = "nan"

HasCol(t, name) == \E i \in 1..Len(t.cols) : t.cols[i] = name

\* df[name]: the position of the column labelled name
ColIndex(t, name) == IndexOf(t.cols, name)

Column(t, name) == [r \in 1..Len(t.rows) |-> t.rows[r][ColIndex(t, name)]]

\* df[name] = values: an existing column is overwritten in place, a new one
\* is appended as the last column
SetColumn(t, name, values) ==
    IF HasCol(t, name)
    THEN [cols |-> t.cols,
          rows |-> [r \in 1..Len(t.rows) |->
                      [t.rows[r] EXCEPT ![ColIndex(t, name)] = values[r]]]]
    ELSE [cols |-> Append(t.cols, name),
          rows |-> [r \in 1..Len(t.rows) |-> Append(t.rows[r], values[r])]]

CleanColumns(t) ==
    [cols |-> [i \in 1..Len(t.cols) |-> CleanLabel(t.cols[i])],
     rows |-> t.rows]

----------------------------------------------------------------------------
(* Column labels and literals of the script *)

customer_id == <<"c","u","s","t","o","m","e","r","_","i","d">>
marital == <<"m","a","r","i","t","a","l">>
marital_status == marital \o <<"_","s","t","a","t","u","s">>
dob == <<"d","o","b">>
age == <<"a","g","e">>
age_group == <<"a","g","e","_","g","r","o","u","p">>
spend == <<"s","p","e","n","d">>
spend_inr == <<"s","p","e","n","d","_","i","n","r">>
city == <<"c","i","t","y">>
occupation == <<"o","c","c","u","p","a","t","i","o","n">>
category == <<"c","a","t","e","g","o","r","y">>

bins == <<0, 20, 24, 34, 45, 120>>
labels == << <<"<","2","0">>, <<"2","1","-","2","4">>, <<"2","5","-","3","4">>,
             <<"3","5","-","4","5">>, <<"4","5","+">> >>

\* The lookup with an entry for "35-44" as well.
mapping_35_44 ==
    << <<labels[2], 22>>, <<labels[3], 29>>, <<labels[4], 39>>,
       <<labels[5], 50>>, << <<"3","5","-","4","4">>, 39 >> >>

\* mapping = {"21-24": 22, "25-34": 29, "35-45": 39, "45+": 50}
mapping == << <<labels[2], 22>>, <<labels[3], 29>>, <<labels[4], 39>>,
              <<labels[5], 50>> >>

USD_TO_INR == 83

----------------------------------------------------------------------------
(* pd.merge(spends, customers, on="customer_id", how="left") *)

RECURSIVE Flatten(_)
Flatten(ss) == IF ss = <<>> THEN <<>> ELSE Head(ss) \o Flatten(Tail(ss))

\* row without its i-th cell
DropAt(row, i) == SubSeq(row, 1, i - 1) \o SubSeq(row, i + 1, Len(row))

\* The rows of how="inner": a left row without a match is dropped.
InnerMergeRows(left, right, on) ==
    LET li == ColIndex(left, on)
        ri == ColIndex(right, on)
        hit(l) == SelectSeq(right.rows, LAMBDA r : r[ri] = l[li])
        out(l) == [j \in 1..Len(hit(l)) |-> l \o DropAt(hit(l)[j], ri)]
    IN  Flatten([i \in 1..Len(left.rows) |-> out(left.rows[i])])

\* Every left row in order; for each, one output row per right row with an
\* equal key, in right order (null keys match null keys), or one output row
\* padded with NaN when no right row matches.
MergeRows(left, right, on) ==
    LET li == ColIndex(left, on)
        ri == ColIndex(right, on)
        pad == [i \in 1..(Len(right.cols) - 1) |-> NaN]
        hit(l) == SelectSeq(right.rows, LAMBDA r : r[ri] = l[li])
        out(l) ==
            IF hit(l) = <<>> THEN << l \o pad >>
            ELSE [j \in 1..Len(hit(l)) |-> l \o DropAt(hit(l)[j], ri)]
    IN  Flatten([i \in 1..Len(left.rows) |-> out(left.rows[i])])

\* A label other than the key found on both sides gets the suffix _x on the
\* left and _y on the right.
MergeCols(left, right, on) ==
    LET both(c) == c # on /\ HasCol(left, c) /\ HasCol(right, c)
        lc == [i \in 1..Len(left.cols) |->
                 IF both(left.cols[i]) THEN left.cols[i] \o <<"_","x">>
                 ELSE left.cols[i]]
        rc == [i \in 1..Len(right.cols) |->
                 IF both(right.cols[i]) THEN right.cols[i] \o <<"_","y">>
                 ELSE right.cols[i]]
    IN  lc \o DropAt(rc, ColIndex(right, on))

merge(left, right, on) ==
    [cols |-> MergeCols(left, right, on), rows |-> MergeRows(left, right, on)]

----------------------------------------------------------------------------
(* Fix marital_status column *)

\* df.rename(columns={old: new}): every column labelled old
rename(t, old, new) ==
    [cols |-> [i \in 1..Len(t.cols) |-> IF t.cols[i] = old THEN new ELSE t.cols[i]],
     rows |-> t.rows]

\* for col in df.columns: if "marital" in col.lower(): rename; break
FixMarital(t) ==
    LET hits == {i \in 1..Len(t.cols) : Contains(str_lower(t.cols[i]), marital)}
    IN  IF hits = {} THEN t
        ELSE LET first == CHOOSE i \in hits : \A j \in hits : i <= j
             IN  rename(t, t.cols[first], marital_status)

----------------------------------------------------------------------------
(* Parsing *)

IsDigits(s) == s # <<>> /\ \A i \in 1..Len(s) : IndexOf(DigitChars, s[i]) # 0

RECURSIVE Decimal(_)
Decimal(s) ==
    IF s = <<>> THEN 0
    ELSE 10 * Decimal(SubSeq(s, 1, Len(s) - 1))
         + (IndexOf(DigitChars, s[Len(s)]) - 1)

\* pd.to_numeric(cell, errors="coerce") on one cell: a number stays, a text
\* that is an optionally signed run of digits (blanks around it ignored)
\* becomes that number, anything else becomes NaN.
to_numeric(c) ==
    IF c.k = "num" THEN c
    ELSE IF c.k # "str" THEN NaN
    ELSE LET t == str_strip(c.s)
             neg == t # <<>> /\ Head(t) = "-"
             pos == t # <<>> /\ Head(t) = "+"
             d == IF neg \/ pos THEN Tail(t) ELSE t
         IN  IF ~IsDigits(d) THEN NaN
             ELSE IF neg THEN Num(0 - Decimal(d)) ELSE Num(Decimal(d))

IsLeap(y) == (y % 4 = 0 /\ y % 100 # 0) \/ y % 400 = 0

DaysIn(y, m) ==
    IF m = 2 THEN (IF IsLeap(y) THEN 29 ELSE 28)
    ELSE IF m \in {4, 6, 9, 11} THEN 30 ELSE 31

\* Days from 1970-01-01 to the civil date y-m-d.
DayNumber(y, m, d) ==
    LET yy == IF m <= 2 THEN y - 1 ELSE y
        era == yy \div 400
        yoe == yy - era * 400
        mp == IF m > 2 THEN m - 3 ELSE m + 9
        doy == (153 * mp + 2) \div 5 + d - 1
        doe == yoe * 365 + yoe \div 4 - yoe \div 100 + doy
    IN  era * 146097 + doe - 719468

\* pd.to_datetime(cell, errors="coerce") on one cell: an ISO text
\* YYYY-MM-DD naming a calendar day inside the Timestamp range becomes that
\* day; any other text, and NaN, becomes NaT.
to_datetime(c) ==
    IF c.k = "date" THEN c
    ELSE IF c.k # "str" \/ Len(c.s) # 10 THEN NaN
    ELSE LET ys == SubSeq(c.s, 1, 4)
             ms == SubSeq(c.s, 6, 7)
             ds == SubSeq(c.s, 9, 10)
         IN  IF ~(IsDigits(ys) /\ IsDigits(ms) /\ IsDigits(ds)
                  /\ c.s[5] = "-" /\ c.s[8] = "-")
             THEN NaN
             ELSE LET y == Decimal(ys)
                      m == Decimal(ms)
                      d == Decimal(ds)
                  IN  IF m \in 1..12 /\ d \in 1..DaysIn(y, m)
                         /\ y \in 1678..2261
                      THEN Date(DayNumber(y, m, d))
                      ELSE NaN

----------------------------------------------------------------------------
(* Convert DOB to Age or use age_group from CSV *)

\* (today - dob).dt.days // 365 on one cell; NaT gives NaN
AgeFromDob(d, now) == IF d.k = "date" THEN Num((now - d.n) \div 365) ELSE NaN

\* pd.cut(age, bins=bins, labels=labels, right=True) on one cell: the label
\* of the interval (bins[i], bins[i+1]] that holds the age, else NaN
cut(a) ==
    IF a.k # "num" THEN NaN
    ELSE LET hit == {i \in 1..Len(labels) : bins[i] < a.n /\ a.n <= bins[i + 1]}
         IN  IF hit = {} THEN NaN ELSE Str(labels[CHOOSE i \in hit : TRUE])

\* Series.map(mapping) on one cell
MapLabel(c) ==
    LET hit == {i \in 1..Len(mapping) : c.k = "str" /\ mapping[i][1] = c.s}
    IN  IF hit = {} THEN NaN ELSE Num(mapping[CHOOSE i \in hit : TRUE][2])

\* df["dob"] = pd.to_datetime(df["dob"], errors="coerce")
ParseDob(t) == SetColumn(t, dob, [r \in 1..Len(t.rows) |-> to_datetime(Column(t, dob)[r])])

\* df["age"] = (today - df["dob"]).dt.days // 365
AgeColumn(t, now) ==
    SetColumn(t, age, [r \in 1..Len(t.rows) |-> AgeFromDob(Column(t, dob)[r], now)])

\* df["age_group"] = pd.cut(df["age"], ...)
CutAge(t) == SetColumn(t, age_group, [r \in 1..Len(t.rows) |-> cut(Column(t, age)[r])])

\* df["age"] = df["age_group"].map(mapping)
AgeFromLabel(t) == SetColumn(t, age, [r \in 1..Len(t.rows) |-> MapLabel(Column(t, age_group)[r])])

AllNaN(t) == [r \in 1..Len(t.rows) |-> NaN]

\* df["age"] = np.nan; df["age_group"] = None
NoAge(t) == SetColumn(SetColumn(t, age, AllNaN(t)), age_group, AllNaN(t))

\* The derivation with age_group cut from age on the label path as well.
DeriveAgeRecut(t, now) ==
    IF HasCol(t, dob) THEN CutAge(AgeColumn(ParseDob(t), now))
    ELSE IF HasCol(t, age_group) THEN CutAge(AgeFromLabel(t))
    ELSE IF ~HasCol(t, age) THEN NoAge(t)
    ELSE t

DeriveAge(t, now) ==
    IF HasCol(t, dob) THEN CutAge(AgeColumn(ParseDob(t), now))
    ELSE IF HasCol(t, age_group) THEN AgeFromLabel(t)
    ELSE IF ~HasCol(t, age) THEN NoAge(t)
    ELSE t

\* df["age"] = pd.to_numeric(df["age"], errors="coerce")
NumericAge(t) == SetColumn(t, age, [r \in 1..Len(t.rows) |-> to_numeric(Column(t, age)[r])])

\* Ensure spend numeric: pd.to_numeric(..., errors="coerce").fillna(0)
fillna(c) == IF isnull(c) THEN Num(0) ELSE c

\* pd.to_numeric(..., errors="coerce") with the .fillna(0) left out
CoerceSpendNoFill(c) == to_numeric(c)

CoerceSpend(c) == fillna(to_numeric(c))

----------------------------------------------------------------------------
(* load_data *)

\* df["spend"] = pd.to_numeric(df["spend"], errors="coerce").fillna(0)
NumericSpend(t) == SetColumn(t, spend, [r \in 1..Len(t.rows) |-> CoerceSpend(Column(t, spend)[r])])

\* The frame after the merge and the marital_status fix, lines 44-65
Joined(cust, spnd) ==
    FixMarital(merge(CleanColumns(spnd), CleanColumns(cust), customer_id))

\* The body of load_data on the two frames read from the CSV files.
load_data(cust, spnd, now) ==
    NumericSpend(NumericAge(DeriveAge(Joined(cust, spnd), now)))

\* What makes load_data raise instead of returning: the join key missing
\* from either frame (KeyError in pd.merge), or no spend column
\* (KeyError at df["spend"]).
Loadable(cust, spnd) ==
    /\ HasCol(CleanColumns(cust), customer_id)
    /\ HasCol(CleanColumns(spnd), customer_id)
    /\ HasCol(Joined(cust, spnd), spend)

----------------------------------------------------------------------------
(* Sidebar filters *)

\* sorted(...) of a set of texts
RECURSIVE sorted(_)
sorted(S) ==
    IF S = {} THEN <<>>
    ELSE LET m == CHOOSE x \in S : \A y \in S \ {x} : StrLess(x, y)
         IN  <<m>> \o sorted(S \ {m})

Range(seq) == {seq[i] : i \in 1..Len(seq)}

\* df[name].dropna().unique()
Unique(t, name) ==
    {c.s : c \in {x \in Range(Column(t, name)) : ~isnull(x)}}

\* The options a multiselect is given: sorted(df[name].dropna().unique())
Options(t, name) == sorted(Unique(t, name))

\* df[df[name].isin(chosen)]
FilterIsin(t, name, chosen) ==
    [cols |-> t.cols,
     rows |-> SelectSeq(t.rows, LAMBDA r : LET c == r[ColIndex(t, name)]
                                            IN  ~isnull(c) /\ c.s \in chosen)]

Ages(t) == {c.n : c \in {x \in Range(Column(t, age)) : ~isnull(x)}}

Min(S) == CHOOSE x \in S : \A y \in S : x <= y
Max(S) == CHOOSE x \in S : \A y \in S : x >= y

\* between(lo, hi, inclusive="neither")
FilterBetweenOpen(t, lo, hi) ==
    [cols |-> t.cols,
     rows |-> SelectSeq(t.rows, LAMBDA r : LET c == r[ColIndex(t, age)]
                                            IN  ~isnull(c) /\ lo < c.n /\ c.n < hi)]

\* df[df["age"].between(lo, hi)]: both ends inclusive, NaN is not between
FilterBetween(t, lo, hi) ==
    [cols |-> t.cols,
     rows |-> SelectSeq(t.rows, LAMBDA r : LET c == r[ColIndex(t, age)]
                                            IN  ~isnull(c) /\ lo <= c.n /\ c.n <= hi)]

\* df["spend_inr"] = df["spend"] * USD_TO_INR
AddSpendInr(t) ==
    SetColumn(t, spend_inr,
              [r \in 1..Len(t.rows) |-> Num(Column(t, spend)[r].n * USD_TO_INR)])

RECURSIVE SumCells(_)
SumCells(cells) ==
    IF cells = <<>> THEN 0 ELSE Head(cells).n + SumCells(Tail(cells))

\* The three tiles of the KPIs page
KPIs(t) ==
    [total_spend |-> SumCells(Column(t, spend_inr)),
     unique_customers |->
        Cardinality({c \in Range(Column(t, customer_id)) : ~isnull(c)}),
     total_transactions |-> Len(t.rows)]

----------------------------------------------------------------------------
(* One run of the script, lines 92-139 *)

EmptyFrame == [cols |-> <<>>, rows |-> <<>>]

NoWidgets ==
    [shown |-> {}, city |-> <<>>, occupation |-> <<>>, category |-> <<>>,
     age |-> <<>>]

NoSelection == [city |-> {}, occupation |-> {}, category |-> {}, age |-> <<>>]

NoMetrics == [total_spend |-> 0, unique_customers |-> 0, total_transactions |-> 0]

\* A widget the user did not touch: streamlit keeps its value from the last
\* run while the widget is built with the same options and default, and
\* gives it its default otherwise (first run, or options that changed).
Kept(dim, options) == dim \in offered.shown /\ offered[dim] = options

\* st.sidebar.multiselect(label, options, default=options)
multiselect(dim, options, chg) ==
    IF chg.dim = dim THEN chg.set
    ELSE IF Kept(dim, options) THEN selected[dim]
    ELSE Range(options)

\* st.sidebar.slider(label, min_age, max_age, (min_age, max_age))
slider(lohi, chg) ==
    IF chg.dim = "age" THEN chg.range
    ELSE IF Kept("age", lohi) THEN selected.age
    ELSE lohi

\* A run that starts from the df the run before left (its spend_inr column
\* aside) when there is one.
StartFromLastFrame(c) ==
    IF df = EmptyFrame THEN c[1]
    ELSE [cols |-> SubSeq(df.cols, 1, Len(df.cols) - 1),
          rows |-> [i \in 1..Len(df.rows) |->
                      SubSeq(df.rows[i], 1, Len(df.rows[i]) - 1)]]

\* The frame every run starts from: what load_data() returns, a copy of
\* the cached frame.
StartFrame(c) == c[1]

\* The run so far: df, and what the widgets built so far offered and
\* returned.
Begin(base) == [df |-> base, offered |-> NoWidgets, selected |-> NoSelection]

Shown(w, dim, options, value, frame) ==
    [df |-> frame,
     offered |-> [w.offered EXCEPT ![dim] = options, !.shown = @ \cup {dim}],
     selected |-> [w.selected EXCEPT ![dim] = value]]

Chosen(w, dim, col, options, value) ==
    Shown(w, dim, options, value, FilterIsin(w.df, col, value))

\* if col in df.columns: options = sorted(...); chosen = multiselect(...);
\* df = df[df[col].isin(chosen)]
MultiselectFilter(w, dim, col, options, chg) ==
    Chosen(w, dim, col, options, multiselect(dim, options, chg))

CityFilter(w, chg) ==
    IF HasCol(w.df, city)
    THEN MultiselectFilter(w, "city", city, Options(w.df, city), chg)
    ELSE w

OccupationFilter(w, chg) ==
    IF HasCol(w.df, occupation)
    THEN MultiselectFilter(w, "occupation", occupation,
                           Options(w.df, occupation), chg)
    ELSE w

CategoryFilter(w, chg) ==
    IF HasCol(w.df, category)
    THEN MultiselectFilter(w, "category", category, Options(w.df, category), chg)
    ELSE w

Slid(w, lohi, value) ==
    Shown(w, "age", lohi, value, FilterBetween(w.df, value[1], value[2]))

AgeRange(ages) == <<Min(ages), Max(ages)>>

\* if df["age"].notnull().any(): ... df = df[df["age"].between(lo, hi)]
AgeFilter(w, chg) ==
    IF Ages(w.df) # {}
    THEN Slid(w, AgeRange(Ages(w.df)), slider(AgeRange(Ages(w.df)), chg))
    ELSE w

Converted(w) == [w EXCEPT !.df = AddSpendInr(w.df)]

\* Lines 92-129 on the frame load_data returned; chg is the widget the user
\* changed to start this run, if any.  The result is df at the end of the
\* run with what the widgets offered and returned.
ScriptRun(base, chg) ==
    Converted(AgeFilter(CategoryFilter(OccupationFilter(CityFilter(Begin(base),
        chg), chg), chg), chg))

NoChange == [dim |-> "none", set |-> {}, range |-> <<>>]

Finish(run) ==
    /\ df' = run.df
    /\ offered' = run.offered
    /\ selected' = run.selected
    /\ metrics' = KPIs(run.df)

\* The first run: load_data misses the cache, computes the frame and stores
\* it; every widget is new.
FirstRun ==
    /\ cache = <<>>
    /\ Loadable(customers, spends)
    /\ cache' = <<load_data(customers, spends, today)>>
    /\ Finish(ScriptRun(StartFrame(cache'), NoChange))
    /\ UNCHANGED <<customers, spends, today>>

\* A rerun started by a widget: load_data hits the cache.
Rerun(chg) ==
    /\ cache # <<>>
    /\ Finish(ScriptRun(StartFrame(cache), chg))
    /\ UNCHANGED <<customers, spends, today, cache>>

ChangeCity ==
    /\ "city" \in offered.shown
    /\ \E sc \in SUBSET Range(offered.city) :
          Rerun([dim |-> "city", set |-> sc, range |-> <<>>])

ChangeOccupation ==
    /\ "occupation" \in offered.shown
    /\ \E so \in SUBSET Range(offered.occupation) :
          Rerun([dim |-> "occupation", set |-> so, range |-> <<>>])

ChangeCategory ==
    /\ "category" \in offered.shown
    /\ \E sg \in SUBSET Range(offered.category) :
          Rerun([dim |-> "category", set |-> sg, range |-> <<>>])

\* The ends the slider is dragged to: the ends it is built with and the
\* marked ages between them.
AgeMarks == {25, 34}

SliderStops == IF offered.age = <<>> THEN {}
               ELSE {offered.age[1], offered.age[2]}
                    \cup {a \in AgeMarks : offered.age[1] <= a /\ a <= offered.age[2]}

ChangeAge ==
    /\ "age" \in offered.shown
    /\ \E lo \in SliderStops : \E hi \in SliderStops :
          /\ lo <= hi
          /\ Rerun([dim |-> "age", set |-> {}, range |-> <<lo, hi>>])

Next == FirstRun \/ ChangeCity \/ ChangeOccupation \/ ChangeCategory \/ ChangeAge

----------------------------------------------------------------------------
(* The CSV files the model runs on *)

MaxCustomerRows == 2
MaxSpendRows == 2
MaxExtraColumns == 2

\* Headers as the files spell them
H_customer_id == <<"C","u","s","t","o","m","e","r"," ","I","D">>
H_city == <<"C","i","t","y">>
H_occupation == <<"O","c","c","u","p","a","t","i","o","n">>
H_category == <<"C","a","t","e","g","o","r","y">>
H_spend == <<"S","p","e","n","d">>
H_dob == <<"D","O","B">>
H_age == <<"A","g","e">>
H_age_group == <<"A","g","e"," ","G","r","o","u","p">>
H_marital_status == <<"M","a","r","i","t","a","l"," ","S","t","a","t","u","s"," ">>
H_marital == <<"M","a","r","i","t","a","l">>

A1 == Str(<<"A","1">>)
A2 == Str(<<"A","2">>)
Z9 == Str(<<"Z","9">>)
Agra == Str(<<"A","g","r","a">>)
Pune == Str(<<"P","u","n","e">>)
Clerk == Str(<<"C","l","e","r","k">>)
Nurse == Str(<<"N","u","r","s","e">>)
Food == Str(<<"F","o","o","d">>)
Fuel == Str(<<"F","u","e","l">>)
Single == Str(<<"S","i","n","g","l","e">>)

\* datetime.now().date()
Today == DayNumber(2026, 11, 3)

SpendCells ==
    {Num(7), Str(<<"1","2">>), Str(<<"-","3">>), Str(<<"N","/","A">>),
     Str(<<" ","8">>), NaN}

DobCells ==
    {Str(<<"2","0","2","7","-","0","1","-","0","1">>),
     Str(<<"2","0","2","6","-","0","6","-","0","1">>),
     Str(<<"2","0","0","6","-","1","1","-","0","3">>),
     Str(<<"2","0","0","5","-","1","1","-","0","3">>),
     Str(<<"2","0","0","2","-","1","1","-","0","3">>),
     Str(<<"2","0","0","1","-","1","1","-","0","3">>),
     Str(<<"1","9","8","1","-","1","1","-","0","3">>),
     Str(<<"1","9","8","0","-","1","1","-","0","3">>),
     Str(<<"1","9","0","6","-","1","1","-","0","3">>),
     Str(<<"1","9","0","5","-","1","1","-","0","3">>),
     Str(<<"1","9","9","9","-","0","2","-","3","0">>),
     NaN}

LabelCells ==
    {Str(labels[i]) : i \in 1..Len(labels)}
    \cup {Str(<<"3","5","-","4","4">>), Str(<<"6","5","+">>), NaN}

AgeCells == {Num(30), Str(<<"4","1">>), Str(<<"o","l","d">>), NaN}

RECURSIVE Seqs(_, _)
\* the sequences over S of length 0..n
Seqs(S, n) ==
    IF n = 0 THEN {<<>>}
    ELSE LET p == Seqs(S, n - 1)
         IN  p \cup {Append(q, x) : q \in {q \in p : Len(q) = n - 1}, x \in S}

Frames(cols, rowSet, n) ==
    {[cols |-> cols, rows |-> r] : r \in Seqs(rowSet, n) \ {<<>>}}

Injective(q) == \A i, j \in 1..Len(q) : q[i] = q[j] => i = j

\* Customers with a city against spends of known and unknown customers
JoinFiles ==
    {<<c, s>> :
        c \in Frames(<<H_customer_id, H_city>>,
                     {<<A1, Agra>>, <<A1, Pune>>, <<A2, Pune>>},
                     MaxCustomerRows),
        s \in Frames(<<H_customer_id, H_spend>>,
                     {<<i, Num(5)>> : i \in {A1, A2, Z9}}, MaxSpendRows)}

SpendFiles ==
    {<<c, s>> :
        c \in Frames(<<H_customer_id>>, {<<A1>>}, 1),
        s \in Frames(<<H_spend, H_customer_id>>,
                     {<<v, A1>> : v \in SpendCells}, MaxSpendRows)}

DobFiles ==
    {<<c, s>> :
        c \in Frames(<<H_customer_id, H_dob>>,
                     {<<A1, d>> : d \in DobCells}, MaxCustomerRows),
        s \in Frames(<<H_customer_id, H_spend>>, {<<A1, Num(5)>>}, 1)}

LabelFiles ==
    {<<c, s>> :
        c \in Frames(<<H_customer_id, H_age_group>>,
                     {<<A1, g>> : g \in LabelCells}, MaxCustomerRows),
        s \in Frames(<<H_customer_id, H_spend>>, {<<A1, Num(5)>>}, 1)}

AgeFiles ==
    {<<c, s>> :
        c \in Frames(<<H_customer_id, H_age>>,
                     {<<A1, a>> : a \in AgeCells}, MaxCustomerRows),
        s \in Frames(<<H_customer_id, H_spend>>, {<<A1, Num(5)>>}, 1)}

\* Every filter at once
FilterFiles ==
    {<<c, s>> :
        c \in Frames(<<H_customer_id, H_city, H_occupation, H_age_group>>,
                     {<<A1, Agra, Clerk, Str(labels[3])>>,
                      <<A2, Pune, Nurse, Str(labels[4])>>,
                      <<A2, Pune, Clerk, NaN>>,
                      <<A1, NaN, Nurse, Str(labels[5])>>},
                     MaxCustomerRows),
        s \in Frames(<<H_customer_id, H_spend, H_category>>,
                     {<<A1, Num(5), Food>>, <<A2, Num(9), Fuel>>},
                     MaxSpendRows)}

\* Ages on both sides of the marked ages, and spends of an unknown customer
SliderFiles ==
    {<<c, s>> :
        c \in Frames(<<H_customer_id, H_age_group>>,
                     {<<A1, Str(labels[2])>>, <<A1, Str(labels[3])>>,
                      <<A1, Str(labels[5])>>},
                     MaxCustomerRows),
        s \in Frames(<<H_customer_id, H_spend, H_category>>,
                     {<<A1, Num(5), Food>>, <<Z9, Num(2), Fuel>>},
                     MaxSpendRows)}

\* Headers that mention the marital status, on either side
MaritalFiles ==
    {<<[cols |-> <<H_customer_id>> \o ch,
        rows |-> << <<A1>> \o [i \in 1..Len(ch) |-> Single] >>],
       [cols |-> <<H_customer_id, H_spend>> \o sh,
        rows |-> << <<A1, Num(5)>> \o [i \in 1..Len(sh) |-> Single] >>]>> :
        ch \in {q \in Seqs({H_marital_status, H_marital, H_city}, MaxExtraColumns) :
                   Injective(q)},
        sh \in {q \in Seqs({H_marital_status, H_marital}, 1) : Injective(q)}}

Files ==
    JoinFiles \cup SpendFiles \cup DobFiles \cup LabelFiles \cup AgeFiles
    \cup FilterFiles \cup SliderFiles \cup MaritalFiles

Init ==
    /\ \E f \in Files : customers = f[1] /\ spends = f[2]
    /\ today = Today
    /\ cache = <<>>
    /\ df = EmptyFrame
    /\ offered = NoWidgets
    /\ selected = NoSelection
    /\ metrics = NoMetrics

Spec == Init /\ [][Next]_vars

----------------------------------------------------------------------------
(* What the claims speak of *)

Loaded == cache # <<>>

\* The enriched table: what load_data returned
Enriched == cache[1]

Cell(t, r, name) == r[ColIndex(t, name)]

CountRows(rows, i, v) == Cardinality({k \in 1..Len(rows) : rows[k][i] = v})

\* the customer rows that carry the identifier v
Matches(v) ==
    CountRows(customers.rows, ColIndex(CleanColumns(customers), customer_id), v)

SpendIds == Range(Column(CleanColumns(spends), customer_id))

\* the positions of the customer-side fields in a joined row
CustomerSide == (Len(spends.cols) + 1)..(Len(spends.cols) + Len(customers.cols) - 1)

\* df without its last column spend_inr
WithoutSpendInr(t) ==
    [cols |-> SubSeq(t.cols, 1, Len(t.cols) - 1),
     rows |-> [i \in 1..Len(t.rows) |-> SubSeq(t.rows[i], 1, Len(t.rows[i]) - 1)]]

\* A row passes a selection: each shown multiselect holds its value, and the
\* slider, when shown, brackets its age.
Passes(e, r, sel, shown) ==
    /\ "city" \in shown =>
          ~isnull(Cell(e, r, city)) /\ Cell(e, r, city).s \in sel.city
    /\ "occupation" \in shown =>
          ~isnull(Cell(e, r, occupation))
          /\ Cell(e, r, occupation).s \in sel.occupation
    /\ "category" \in shown =>
          ~isnull(Cell(e, r, category)) /\ Cell(e, r, category).s \in sel.category
    /\ "age" \in shown =>
          /\ ~isnull(Cell(e, r, age))
          /\ sel.age[1] <= Cell(e, r, age).n
          /\ Cell(e, r, age).n <= sel.age[2]

\* The rows of e that pass, in one pass over e
PassingRows(e, sel, shown) == SelectSeq(e.rows, LAMBDA r : Passes(e, r, sel, shown))

AllDefault ==
    /\ \A d \in offered.shown \ {"age"} : selected[d] = Range(offered[d])
    /\ "age" \in offered.shown => selected.age = offered.age

----------------------------------------------------------------------------
(* C1 *)

\* C1 as stated: the joined table has exactly as many rows as the spend
\* table, whatever identifiers are missing from or duplicated in the
\* customer table.
C1_RowCountEqualsSpendRows ==
    Loaded => Len(Enriched.rows) = Len(spends.rows)

\* C1 amended: the join keeps one row for every pair of a spend row and a
\* customer row with its identifier, and one row for every spend row without
\* such a customer row; so each identifier v has (spend rows of v) times
\* max(1, customer rows of v) joined rows, the row count equals the spend row
\* count when no identifier of the spend table is duplicated in the customer
\* table, and a row without a matching customer has every customer-side
\* field null.
C1_LeftJoinRowCount ==
    Loaded =>
        LET e == Enriched
            ei == ColIndex(e, customer_id)
            s == CleanColumns(spends)
            si == ColIndex(s, customer_id)
        IN  /\ \A k \in 1..Len(e.rows) : e.rows[k][ei] \in SpendIds
            /\ \A v \in SpendIds :
                  CountRows(e.rows, ei, v) =
                      CountRows(s.rows, si, v)
                      * (IF Matches(v) = 0 THEN 1 ELSE Matches(v))
            /\ (\A v \in SpendIds : Matches(v) <= 1) =>
                  Len(e.rows) = Len(spends.rows)
            /\ \A k \in 1..Len(e.rows) :
                  Matches(e.rows[k][ei]) = 0 =>
                      \A j \in CustomerSide : isnull(e.rows[k][j])

\* A spend row of a customer listed twice and a spend row of an unknown
\* customer have been joined.
C1_Witness ==
    /\ Loaded
    /\ \E v \in SpendIds : Matches(v) = 2
    /\ \E v \in SpendIds : Matches(v) = 0
    /\ Len(Enriched.rows) = Len(spends.rows) + 1

----------------------------------------------------------------------------
(* C2 *)

\* C2: with every sidebar filter at its default, the filtered table is the
\* enriched table row for row; no row is excluded, null fields or not.
C2_DefaultIsIdentity ==
    (Loaded /\ AllDefault) => WithoutSpendInr(df) = Enriched

----------------------------------------------------------------------------
(* C3 *)

\* The bucket the claim gives an age above 0: right-closed boundaries at
\* 20, 24, 34 and 45, the last bucket open above.
C3_Bucket(n) ==
    IF n <= 20 THEN <<"<","2","0">>
    ELSE IF n <= 24 THEN <<"2","1","-","2","4">>
    ELSE IF n <= 34 THEN <<"2","5","-","3","4">>
    ELSE IF n <= 45 THEN <<"3","5","-","4","5">>
    ELSE <<"4","5","+">>

\* C3: where age comes from a birth date, age_group is the label of the
\* right-closed bucket that holds the age, every age above the top boundary
\* is in the last bucket, and an age at or below 0 or a null age has a null
\* age_group.
C3_AgeGroupIsBucket ==
    (Loaded /\ HasCol(Joined(customers, spends), dob)) =>
        \A k \in 1..Len(Enriched.rows) :
            LET a == Cell(Enriched, Enriched.rows[k], age)
                g == Cell(Enriched, Enriched.rows[k], age_group)
            IN  IF isnull(a) \/ a.n <= 0 THEN isnull(g)
                ELSE g = Str(C3_Bucket(a.n))

----------------------------------------------------------------------------
(* C4 *)

\* C4 as stated: on every path age_group is a function of age: records of
\* equal age have equal age_group, and a null age has a null age_group.
C4_AgeGroupFollowsAge ==
    Loaded =>
        /\ HasCol(Enriched, age_group)
        /\ \A k, l \in 1..Len(Enriched.rows) :
              LET r == Enriched.rows[k]
                  q == Enriched.rows[l]
              IN  /\ Cell(Enriched, r, age) = Cell(Enriched, q, age) =>
                        Cell(Enriched, r, age_group) = Cell(Enriched, q, age_group)
                  /\ isnull(Cell(Enriched, r, age)) =>
                        isnull(Cell(Enriched, r, age_group))

\* C4 amended: age_group follows from age only where a birth-date column
\* exists (equal ages have equal age_group, a null age has a null
\* age_group).  With an age-group label column and no birth date, age_group
\* stays the label of the file and age follows from it instead: equal labels
\* have equal age.  With neither column and no age column both are null in
\* every record, and with only an age column no age_group column is made.
C4_AgeGroupByPath ==
    Loaded =>
        LET j == Joined(customers, spends)
            e == Enriched
            n == 1..Len(e.rows)
        IN  IF HasCol(j, dob) THEN
                /\ HasCol(e, age_group)
                /\ \A k, l \in n :
                      /\ Cell(e, e.rows[k], age) = Cell(e, e.rows[l], age) =>
                            Cell(e, e.rows[k], age_group)
                                = Cell(e, e.rows[l], age_group)
                      /\ isnull(Cell(e, e.rows[k], age)) =>
                            isnull(Cell(e, e.rows[k], age_group))
            ELSE IF HasCol(j, age_group) THEN
                \A k, l \in n :
                    /\ Cell(e, e.rows[k], age_group) = Cell(j, j.rows[k], age_group)
                    /\ Cell(e, e.rows[k], age_group) = Cell(e, e.rows[l], age_group)
                          => Cell(e, e.rows[k], age) = Cell(e, e.rows[l], age)
            ELSE IF ~HasCol(j, age) THEN
                \A k \in n : /\ isnull(Cell(e, e.rows[k], age))
                             /\ isnull(Cell(e, e.rows[k], age_group))
            ELSE ~HasCol(e, age_group)

\* A record read with an age-group label outside the lookup: its age is
\* null and its age_group is not.
C4_Witness ==
    /\ Loaded
    /\ HasCol(customers, H_age_group)
    /\ \E k \in 1..Len(Enriched.rows) :
          /\ isnull(Cell(Enriched, Enriched.rows[k], age))
          /\ ~isnull(Cell(Enriched, Enriched.rows[k], age_group))

----------------------------------------------------------------------------
(* C5 *)

OnLabelPath ==
    LET j == Joined(customers, spends)
    IN  ~HasCol(j, dob) /\ HasCol(j, age_group)

\* The lookup of the claim
C5_ClaimedAge(label) ==
    IF label = Str(<<"2","1","-","2","4">>) THEN Num(22)
    ELSE IF label = Str(<<"2","5","-","3","4">>) THEN Num(29)
    ELSE IF label = Str(<<"3","5","-","4","4">>) THEN Num(39)
    ELSE IF label = Str(<<"3","5","-","4","5">>) THEN Num(39)
    ELSE IF label = Str(<<"4","5","+">>) THEN Num(50)
    ELSE NaN

\* C5 as stated: without a birth-date column and with an age-group label
\* column, age is looked up from the label: "21-24" -> 22, "25-34" -> 29,
\* "35-44" -> 39, "35-45" -> 39, "45+" -> 50, any other label -> null.
C5_LookupWith3544 ==
    (Loaded /\ OnLabelPath) =>
        \A k \in 1..Len(Enriched.rows) :
            Cell(Enriched, Enriched.rows[k], age)
                = C5_ClaimedAge(Cell(Enriched, Enriched.rows[k], age_group))

\* C5 amended: the lookup is "21-24" -> 22, "25-34" -> 29, "35-45" -> 39,
\* "45+" -> 50, and every other label, "35-44" among them, -> null.
C5_Lookup ==
    (Loaded /\ OnLabelPath) =>
        \A k \in 1..Len(Enriched.rows) :
            LET g == Cell(Enriched, Enriched.rows[k], age_group)
            IN  Cell(Enriched, Enriched.rows[k], age)
                    = IF g = Str(<<"3","5","-","4","4">>) THEN NaN
                      ELSE C5_ClaimedAge(g)

\* Records labelled "35-44" and "35-45" have been loaded together.
C5_Witness ==
    /\ Loaded
    /\ OnLabelPath
    /\ \E k, l \in 1..Len(Enriched.rows) :
          /\ Cell(Enriched, Enriched.rows[k], age_group) = Str(<<"3","5","-","4","4">>)
          /\ Cell(Enriched, Enriched.rows[l], age) = Num(39)

----------------------------------------------------------------------------
(* C6 *)

\* C6: for any selection the filtered table holds exactly the rows of the
\* enriched table whose city, occupation and category are each in the
\* selected set and whose age lies in the inclusive range; a row of null age
\* is excluded whenever the age filter is active.
C6_FilterIsConjunction ==
    Loaded =>
        WithoutSpendInr(df).rows = PassingRows(Enriched, selected, offered.shown)

\* The slider has been narrowed, a row of null age that passes every
\* multiselect is left out, and a row is kept.
C6_Witness ==
    /\ Loaded
    /\ {"category", "age"} \subseteq offered.shown
    /\ selected.age # offered.age
    /\ df.rows # <<>>
    /\ \E k \in 1..Len(Enriched.rows) :
          /\ isnull(Cell(Enriched, Enriched.rows[k], age))
          /\ Passes(Enriched, Enriched.rows[k], selected, offered.shown \ {"age"})

----------------------------------------------------------------------------
(* C7 *)

\* rows with spend * 83 appended
C7_WithInr(e, rows) ==
    [cols |-> Append(e.cols, spend_inr),
     rows |-> [i \in 1..Len(rows) |->
                 Append(rows[i], Num(Cell(e, rows[i], spend).n * 83))]]

\* C7: after any run the filtered table is a function of the selection of
\* that run and the enriched table alone: the enriched table is what
\* load_data computed from the files, no run changes it, and df is the
\* enriched table's rows that pass the run's selection, with spend_inr
\* added, whatever the selections of the runs before.
C7_FreshView ==
    [][cache' # <<>> =>
          /\ cache'[1] = load_data(customers, spends, today)
          /\ cache # <<>> => cache' = cache
          /\ df' = C7_WithInr(cache'[1],
                              PassingRows(cache'[1], selected', offered'.shown))]_vars

\* A rerun after the first run: both cities are selected, the slider has
\* been narrowed, and rows of the enriched table are left out of df.
C7_Witness ==
    /\ Loaded
    /\ "city" \in offered.shown
    /\ selected.city = Range(offered.city)
    /\ Cardinality(selected.city) = 2
    /\ "age" \in offered.shown
    /\ selected.age # offered.age
    /\ Len(df.rows) < Len(Enriched.rows)

----------------------------------------------------------------------------
(* C8 *)

\* no record of the enriched table lacks a field a filter reads
C8_NoNullField ==
    \A k \in 1..Len(Enriched.rows) :
        \A c \in {city, occupation, category, age} :
            HasCol(Enriched, c) => ~isnull(Cell(Enriched, Enriched.rows[k], c))

\* C8: the values offered for city, occupation and category, and the ends
\* of the age range, come from the full enriched table, nulls excluded and
\* sorted ascending, whatever is selected in the other dimensions.  Stated
\* for enriched tables without a null in a filtered field, where only a
\* selection can stand between the full table and what a widget is offered.
C8_OptionsFromEnriched ==
    (Loaded /\ C8_NoNullField) =>
        /\ "city" \in offered.shown => offered.city = Options(Enriched, city)
        /\ "occupation" \in offered.shown =>
              offered.occupation = Options(Enriched, occupation)
        /\ "category" \in offered.shown =>
              offered.category = Options(Enriched, category)
        /\ "age" \in offered.shown => offered.age = AgeRange(Ages(Enriched))

----------------------------------------------------------------------------
(* C9 *)

\* C9: every record of the enriched table has a number for spend, never
\* null; a spend that is missing or is no number ("N/A") becomes 0 and any
\* other keeps its value, the record stays (the join's rows are all there),
\* counts as one transaction and adds 0 to the spend total.
C9_SpendIsNumber ==
    Loaded =>
        LET j == Joined(customers, spends)
            e == Enriched
        IN  /\ Len(e.rows) = Len(j.rows)
            /\ \A k \in 1..Len(e.rows) :
                  LET raw == Cell(j, j.rows[k], spend)
                      v == Cell(e, e.rows[k], spend)
                  IN  /\ v.k = "num"
                      /\ raw \in {NaN, Str(<<"N","/","A">>)} => v = Num(0)
                      /\ raw = Str(<<"1","2">>) => v = Num(12)
                      /\ raw.k = "num" => v = raw
            /\ metrics.total_transactions = Len(df.rows)
            /\ offered.shown = {} => metrics.total_transactions = Len(e.rows)
            /\ metrics.total_spend
                  = 83 * SumCells([k \in 1..Len(df.rows) |-> Cell(df, df.rows[k], spend)])

\* A spend of "N/A" has been loaded beside a spend of 12: two transactions,
\* a total of 12 * 83.
C9_Witness ==
    /\ Loaded
    /\ Range(Column(spends, H_spend)) = {Str(<<"N","/","A">>), Str(<<"1","2">>)}
    /\ metrics.total_transactions = 2
    /\ metrics.total_spend = 996

----------------------------------------------------------------------------
(* C10 *)

\* C10: when a column of the joined table has "marital" in its name, the
\* loaded table has exactly one column named marital_status, and it is the
\* first such column of the joined table.
C10_OneMaritalStatus ==
    Loaded =>
        LET m == merge(CleanColumns(spends), CleanColumns(customers), customer_id)
            hits == {i \in 1..Len(m.cols) : Contains(m.cols[i], marital)}
        IN  hits # {} =>
              /\ Cardinality({i \in 1..Len(Enriched.cols) :
                                 Enriched.cols[i] = marital_status}) = 1
              /\ \A i \in hits :
                    (\A h \in hits : i <= h) => Enriched.cols[i] = marital_status

====
